---------------------------- MODULE Spec2Model ----------------------------
(***************************************************************************)
(* Model of lib/parsers/nginx/parser.go: ParseConfig, parseLine and        *)
(* splitDirectives.                                                        *)
(*                                                                         *)
(* A Go string is a sequence of one-character strings.  A *Block is an     *)
(* index into the arena `blocks` (0 is nil); a Block's Lines hold Line     *)
(* records, its Blocks hold indices of child Blocks.                       *)
(***************************************************************************)
EXTENDS Naturals, Integers, Sequences, FiniteSets, TLC

VARIABLES
    pc,            \* position in ParseConfig: "open", "scan", "done"
    source,        \* the lines scanner.Text() has delivered so far
    blocks,        \* the arena of allocated Blocks; blocks[1] is rootBlock
    blockStack,    \* ParseConfig's blockStack
    currentBlock,  \* ParseConfig's currentBlock
    ret,           \* what ParseConfig returned: [config, err]
    nParse,        \* number of parseLine invocations so far
    pre            \* blocks and blockStack as they were before the last scanned line

vars == <<pc, source, blocks, blockStack, currentBlock, ret, nParse, pre>>

----------------------------------------------------------------------------
(* Bounds of the model. *)

\* longest line of the exhaustively enumerated single lines
MaxLen == 3

\* longest file built from the line vocabulary
MaxLines == 4

----------------------------------------------------------------------------
(* Strings. *)

Nil == 0

IsSpace(c) == c \in {" ", "\t"}

RECURSIVE TrimLeft(_)
TrimLeft(s) ==
    IF s = <<>> THEN s
    ELSE IF IsSpace(Head(s)) THEN TrimLeft(Tail(s)) ELSE s

RECURSIVE TrimRight(_)
TrimRight(s) ==
    IF s = <<>> THEN s
    ELSE IF IsSpace(s[Len(s)]) THEN TrimRight(SubSeq(s, 1, Len(s) - 1)) ELSE s

\* strings.TrimSpace
TrimSpace(s) == TrimRight(TrimLeft(s))

\* strings.Index(s, c) for a one-character c: 0-based, -1 when absent
Index(s, c) ==
    IF \E i \in 1..Len(s) : s[i] = c
    THEN (CHOOSE i \in 1..Len(s) : s[i] = c /\ \A j \in 1..(i - 1) : s[j] # c) - 1
    ELSE -1

\* the Go slice expression s[lo:hi]
Slice(s, lo, hi) == SubSeq(s, lo + 1, hi)

RECURSIVE FieldsLoop(_, _, _)
FieldsLoop(s, cur, acc) ==
    IF s = <<>> THEN (IF cur = <<>> THEN acc ELSE Append(acc, cur))
    ELSE IF IsSpace(Head(s))
         THEN FieldsLoop(Tail(s), <<>>, IF cur = <<>> THEN acc ELSE Append(acc, cur))
         ELSE FieldsLoop(Tail(s), Append(cur, Head(s)), acc)

\* strings.Fields
Fields(s) == FieldsLoop(s, <<>>, <<>>)

\* strings.HasSuffix(s, "{")
HasSuffix(s, c) == s # <<>> /\ s[Len(s)] = c

\* strings.TrimSuffix(s, "{")
TrimSuffix(s, c) == IF HasSuffix(s, c) THEN SubSeq(s, 1, Len(s) - 1) ELSE s

----------------------------------------------------------------------------
(* splitDirectives. *)

\* SplitChar that goes on splitting after an unquoted `{`
SplitChar_BraceGoesOn(st, char) ==
    IF char \in {"'", "\""}
    THEN IF st.inQuote /\ char = st.quoteMark
         THEN [st EXCEPT !.inQuote = FALSE, !.quoteMark = "",
                         !.current = Append(@, char)]
         ELSE IF ~st.inQuote
              THEN [st EXCEPT !.inQuote = TRUE, !.quoteMark = char,
                              !.current = Append(@, char)]
              ELSE [st EXCEPT !.current = Append(@, char)]
    ELSE IF char = ";"
    THEN IF st.inQuote
         THEN [st EXCEPT !.current = Append(@, char)]
         ELSE [st EXCEPT !.results = Append(@, TrimSpace(st.current)),
                         !.current = <<>>]
    ELSE IF char = "{"
    THEN IF ~st.inQuote
         THEN [st EXCEPT !.results = Append(@, TrimSpace(Append(st.current, char))),
                         !.current = <<>>]
         ELSE [st EXCEPT !.current = Append(@, char)]
    ELSE [st EXCEPT !.current = Append(@, char)]

\* SplitChar where either quote character closes an open quote
SplitChar_AnyQuoteCloses(st, char) ==
    IF char \in {"'", "\""}
    THEN IF st.inQuote
         THEN [st EXCEPT !.inQuote = FALSE, !.quoteMark = "",
                         !.current = Append(@, char)]
         ELSE [st EXCEPT !.inQuote = TRUE, !.quoteMark = char,
                         !.current = Append(@, char)]
    ELSE IF char = ";"
    THEN IF st.inQuote
         THEN [st EXCEPT !.current = Append(@, char)]
         ELSE [st EXCEPT !.results = Append(@, TrimSpace(st.current)),
                         !.current = <<>>]
    ELSE IF char = "{"
    THEN IF ~st.inQuote
         THEN [st EXCEPT !.results = Append(@, TrimSpace(Append(st.current, char))),
                         !.current = <<>>, !.returned = TRUE]
         ELSE [st EXCEPT !.current = Append(@, char)]
    ELSE [st EXCEPT !.current = Append(@, char)]

\* the switch of splitDirectives on one char; st = [results, current, inQuote,
\* quoteMark, returned]
SplitChar(st, char) ==
    IF char \in {"'", "\""}
    THEN IF st.inQuote /\ char = st.quoteMark
         THEN [st EXCEPT !.inQuote = FALSE, !.quoteMark = "",
                         !.current = Append(@, char)]
         ELSE IF ~st.inQuote
              THEN [st EXCEPT !.inQuote = TRUE, !.quoteMark = char,
                              !.current = Append(@, char)]
              ELSE [st EXCEPT !.current = Append(@, char)]
    ELSE IF char = ";"
    THEN IF st.inQuote
         THEN [st EXCEPT !.current = Append(@, char)]
         ELSE [st EXCEPT !.results = Append(@, TrimSpace(st.current)),
                         !.current = <<>>]
    ELSE IF char = "{"
    THEN IF ~st.inQuote
         THEN [st EXCEPT !.results = Append(@, TrimSpace(Append(st.current, char))),
                         !.current = <<>>, !.returned = TRUE]
         ELSE [st EXCEPT !.current = Append(@, char)]
    ELSE [st EXCEPT !.current = Append(@, char)]

\* SplitLoop without the "Add any remaining content" step
RECURSIVE SplitLoop_DropsTail(_, _)
SplitLoop_DropsTail(line, st) ==
    IF st.returned THEN st.results
    ELSE IF line = <<>> THEN st.results
         ELSE SplitLoop_DropsTail(Tail(line), SplitChar(st, Head(line)))

RECURSIVE SplitLoop(_, _)
SplitLoop(line, st) ==
    IF st.returned THEN st.results
    ELSE IF line = <<>>
         THEN IF Len(st.current) > 0
              THEN Append(st.results, TrimSpace(st.current))
              ELSE st.results
         ELSE SplitLoop(Tail(line), SplitChar(st, Head(line)))

splitDirectives(line) ==
    SplitLoop(line, [results |-> <<>>, current |-> <<>>, inQuote |-> FALSE,
                     quoteMark |-> "", returned |-> FALSE])

----------------------------------------------------------------------------
(* The data model. *)

LineTypeComment == "comment"
LineTypeInclude == "include"
LineTypeDirective == "directive"
LineTypeBlock == "block"

IncludeWord == <<"i", "n", "c", "l", "u", "d", "e">>
RootName == <<"r", "o", "o", "t">>

\* &Line{...}
MkLine(name, params, comments, type) ==
    [Name |-> name, Params |-> params, Comments |-> comments, Type |-> type]

\* MkBlock with the ParentRef field left unset
MkBlock_NoParent(name, params, comments, parent) ==
    [Name |-> name, Params |-> params, Lines |-> <<>>, Blocks |-> <<>>,
     Comments |-> comments, ParentRef |-> Nil]

\* &Block{...} of parseLine
MkBlock(name, params, comments, parent) ==
    [Name |-> name, Params |-> params, Lines |-> <<>>, Blocks |-> <<>>,
     Comments |-> comments, ParentRef |-> parent]

\* rootBlock of ParseConfig
RootBlock ==
    [Name |-> RootName, Params |-> <<>>, Lines |-> <<>>, Blocks |-> <<>>,
     Comments |-> <<>>, ParentRef |-> Nil]

----------------------------------------------------------------------------
(* parseLine. *)

\* commentStart := strings.Index(line, "#")
CommentStart(line) == Index(line, "#")

\* the "Handle comments" step: the comments and the line left of the comment
ExtractComment(line) ==
    LET commentStart == CommentStart(line) IN
    IF commentStart >= 0
    THEN [comments |-> <<TrimSpace(Slice(line, commentStart + 1, Len(line)))>>,
          line |-> TrimSpace(Slice(line, 0, commentStart))]
    ELSE [comments |-> <<>>, line |-> line]

\* AppendCommentLine that puts the comment Line in front of the others
AppendCommentLine_Prepends(blks, cur, comments) ==
    IF Len(comments) > 0
    THEN [blks EXCEPT ![cur].Lines =
              <<MkLine(<<>>, <<>>, comments, LineTypeComment)>> \o @]
    ELSE blks

\* the comment-only line appended when the line is empty after the comment
AppendCommentLine(blks, cur, comments) ==
    IF Len(comments) > 0
    THEN [blks EXCEPT ![cur].Lines =
              Append(@, MkLine(<<>>, <<>>, comments, LineTypeComment))]
    ELSE blks

\* PopStack without the len(*blockStack) > 1 test
PopStack_NoGuard(stack) == SubSeq(stack, 1, Len(stack) - 1)

\* "Handle block end": pop unless only the root is left
PopStack(stack) ==
    IF Len(stack) > 1 THEN SubSeq(stack, 1, Len(stack) - 1) ELSE stack

\* params of a plain directive
DirectiveParams(parts) ==
    IF Len(parts) > 1 THEN Slice(parts, 1, Len(parts)) ELSE <<>>

\* blockParams: the opening brace removed from the last part
BlockParams(parts) ==
    IF Len(parts) > 1
    THEN LET lastParam == parts[Len(parts)] IN
         IF lastParam = <<"{">>
         THEN Slice(parts, 1, Len(parts) - 1)
         ELSE IF HasSuffix(lastParam, "{")
              THEN Append(Slice(parts, 1, Len(parts) - 1), TrimSuffix(lastParam, "{"))
              ELSE Slice(parts, 1, Len(parts))
    ELSE <<>>

\* whether the fragment starts a block
IsBlockStart(directive) == directive[Len(directive)] = "{"

\* LineTypeOf that knows no include
LineTypeOf_NeverInclude(name) == LineTypeDirective

\* lineType of a fragment that starts no block
LineTypeOf(name) == IF name = IncludeWord THEN LineTypeInclude ELSE LineTypeDirective

\* OpenBlock that pushes the parent scope again, not the new one
OpenBlock_PushesParent(st, cur, parts) ==
    LET blockName == parts[1]
        blockParams == BlockParams(parts)
        newBlock == Len(st.blocks) + 1
        added == Append(st.blocks, MkBlock(blockName, blockParams, st.comments, cur))
    IN  [blocks |-> [added EXCEPT
                        ![cur].Blocks = Append(@, newBlock),
                        ![cur].Lines = Append(@, MkLine(blockName, blockParams,
                                                        st.comments, LineTypeBlock))],
         stack |-> Append(st.stack, cur),
         comments |-> <<>>]

\* OpenBlock whose block Line keeps the fragment's params, brace included
OpenBlock_LineKeepsBrace(st, cur, parts) ==
    LET blockName == parts[1]
        blockParams == BlockParams(parts)
        newBlock == Len(st.blocks) + 1
        added == Append(st.blocks, MkBlock(blockName, blockParams, st.comments, cur))
    IN  [blocks |-> [added EXCEPT
                        ![cur].Blocks = Append(@, newBlock),
                        ![cur].Lines = Append(@, MkLine(blockName, DirectiveParams(parts),
                                                        st.comments, LineTypeBlock))],
         stack |-> Append(st.stack, newBlock),
         comments |-> <<>>]

\* the block-start branch; st = [blocks, stack, comments]
OpenBlock(st, cur, parts) ==
    LET blockName == parts[1]
        blockParams == BlockParams(parts)
        newBlock == Len(st.blocks) + 1
        added == Append(st.blocks, MkBlock(blockName, blockParams, st.comments, cur))
    IN  [blocks |-> [added EXCEPT
                        ![cur].Blocks = Append(@, newBlock),
                        ![cur].Lines = Append(@, MkLine(blockName, blockParams,
                                                        st.comments, LineTypeBlock))],
         stack |-> Append(st.stack, newBlock),
         comments |-> <<>>]

\* AddDirective that does not clear the comments it has used
AddDirective_KeepsComments(st, cur, parts) ==
    LET name == parts[1] IN
    [blocks |-> [st.blocks EXCEPT
                    ![cur].Lines = Append(@, MkLine(name, DirectiveParams(parts),
                                                    st.comments, LineTypeOf(name)))],
     stack |-> st.stack,
     comments |-> st.comments]

\* the "Regular directive or include" branch
AddDirective(st, cur, parts) ==
    LET name == parts[1] IN
    [blocks |-> [st.blocks EXCEPT
                    ![cur].Lines = Append(@, MkLine(name, DirectiveParams(parts),
                                                    st.comments, LineTypeOf(name)))],
     stack |-> st.stack,
     comments |-> <<>>]

\* directive[len(directive)-1] or parts[0] would index out of range (a Go
\* run-time panic)
IndexOutOfRange(directive, parts) == Len(directive) = 0 \/ Len(parts) = 0

\* DirectiveStep without the two `continue` tests
DirectiveStep_NoEmptyTests(st, cur, rawDirective) ==
    LET directive == TrimSpace(rawDirective)
        parts == Fields(directive)
    IN  IF IndexOutOfRange(directive, parts) THEN [st EXCEPT !.panic = TRUE]
        ELSE IF IsBlockStart(directive) THEN OpenBlock(st, cur, parts) @@ [panic |-> FALSE]
        ELSE AddDirective(st, cur, parts) @@ [panic |-> FALSE]

\* one iteration of the loop over directives; st = [blocks, stack, comments,
\* panic]
DirectiveStep(st, cur, rawDirective) ==
    LET directive == TrimSpace(rawDirective)
        parts == Fields(directive)
    IN  IF directive = <<>> THEN st
        ELSE IF Len(parts) = 0 THEN st
        ELSE IF IndexOutOfRange(directive, parts) THEN [st EXCEPT !.panic = TRUE]
        ELSE IF IsBlockStart(directive) THEN OpenBlock(st, cur, parts) @@ [panic |-> FALSE]
        ELSE AddDirective(st, cur, parts) @@ [panic |-> FALSE]

RECURSIVE DirectivesLoop(_, _, _)
DirectivesLoop(st, cur, directives) ==
    IF directives = <<>> \/ st.panic THEN st
    ELSE DirectivesLoop(DirectiveStep(st, cur, Head(directives)), cur, Tail(directives))

\* parseLine(line, currentBlock, &blockStack): the arena and the stack
\* afterwards, and whether it panicked
parseLine(line, cur, blks, stack) ==
    LET ex == ExtractComment(line) IN
    IF ex.line = <<>>
    THEN [blocks |-> AppendCommentLine(blks, cur, ex.comments), stack |-> stack,
          panic |-> FALSE]
    ELSE IF ex.line = <<"}">>
    THEN [blocks |-> blks, stack |-> PopStack(stack), panic |-> FALSE]
    ELSE LET out == DirectivesLoop([blocks |-> blks, stack |-> stack,
                                    comments |-> ex.comments, panic |-> FALSE],
                                   cur, splitDirectives(ex.line))
         IN  [blocks |-> out.blocks, stack |-> out.stack, panic |-> out.panic]

----------------------------------------------------------------------------
(* The files ParseConfig is run on. *)

Alphabet == {"a", " ", ";", "{", "}", "#", "\"", "'"}

\* every line of at most MaxLen characters over Alphabet
ShortLines == UNION {[1..n -> Alphabet] : n \in 1..MaxLen}

OpenLine == <<"b", " ", "{">>
CloseLine == <<"}">>

\* the lines the longer files are built from
Vocabulary ==
    { OpenLine,
      CloseLine,
      <<"d", " ", "1", ";">>,
      <<"d", ";", " ", "e", " ", "x", "{", " ", "#", " ", "n">>,
      <<"#", " ", "n">>,
      <<" ", " ">>,
      <<"i", "n", "c", "l", "u", "d", "e", " ", "f", ";">>,
      <<"}", " ", "#", " ", "n">> }

\* alpha "b;c#d" gamma;
QuotedExample ==
    <<"a", "l", "p", "h", "a", " ", "\"", "b", ";", "c", "#", "d", "\"", " ",
      "g", "a", "m", "m", "a", ";">>

\* foo bar; # note
CommentExample ==
    <<"f", "o", "o", " ", "b", "a", "r", ";", " ", "#", " ", "n", "o", "t", "e">>

\* foo bar; baz; # note
CommentExample2 ==
    <<"f", "o", "o", " ", "b", "a", "r", ";", " ", "b", "a", "z", ";", " ",
      "#", " ", "n", "o", "t", "e">>

\* a 1; b 2; c 3;
MultiExample ==
    <<"a", " ", "1", ";", " ", "b", " ", "2", ";", " ", "c", " ", "3", ";">>

\* name arg{
BraceExample == <<"n", "a", "m", "e", " ", "a", "r", "g", "{">>

\* events { }
OneLineBlockExample == <<"e", "v", "e", "n", "t", "s", " ", "{", " ", "}">>

\* a; b "x;y" ; c {   # z
MixedExample ==
    <<"a", ";", " ", "b", " ", "\"", "x", ";", "y", "\"", " ", ";", " ", "c", " ",
      "{", " ", " ", "#", " ", "z">>

\* d "x; e
UnterminatedLine == <<"d", " ", "\"", "x", ";", " ", "e">>

\* include x {
IncludeBlockExample == <<"i", "n", "c", "l", "u", "d", "e", " ", "x", " ", "{">>

\* includes f; include g
IncludeLikeExample ==
    <<"i", "n", "c", "l", "u", "d", "e", "s", " ", "f", ";", " ",
      "i", "n", "c", "l", "u", "d", "e", " ", "g">>

ExampleLines ==
    { QuotedExample, CommentExample, CommentExample2, MultiExample, BraceExample,
      OneLineBlockExample, MixedExample, UnterminatedLine, IncludeBlockExample,
      IncludeLikeExample }

\* the nesting example: http { / server { / listen 80; / } / }
NestingExample ==
    << <<"h", "t", "t", "p", " ", "{">>,
       <<" ", " ", "s", "e", "r", "v", "e", "r", " ", "{">>,
       <<" ", " ", " ", " ", "l", "i", "s", "t", "e", "n", " ", "8", "0", ";">>,
       <<" ", " ", "}">>,
       <<"}">> >>

IsPrefix(s, t) == Len(s) <= Len(t) /\ SubSeq(t, 1, Len(s)) = s

\* the lines the file that begins with the lines `read` may go on with:
\* a file is at most MaxLines lines of Vocabulary, or one short or example
\* line alone, inside one open block or after a line that ends inside a
\* quote, or the nesting example
NextLines(read) ==
    (IF Len(read) < MaxLines /\ \A i \in 1..Len(read) : read[i] \in Vocabulary
     THEN Vocabulary ELSE {})
    \cup (IF read \in {<<>>, <<OpenLine>>, <<UnterminatedLine>>}
          THEN ShortLines \cup ExampleLines ELSE {})
    \cup (IF Len(read) < Len(NestingExample) /\ IsPrefix(read, NestingExample)
          THEN {NestingExample[Len(read) + 1]} ELSE {})

----------------------------------------------------------------------------
(* ParseConfig. *)

NoReturn == [config |-> Nil, err |-> "none"]

Init ==
    /\ pc = "open"
    /\ source = <<>>
    /\ blocks = <<>>
    /\ blockStack = <<>>
    /\ currentBlock = Nil
    /\ ret = NoReturn
    /\ nParse = 0
    /\ pre = [blocks |-> <<>>, blockStack |-> <<>>]

\* os.Open fails: return nil, err
OpenFail ==
    /\ pc = "open"
    /\ pc' = "done"
    /\ ret' = [config |-> Nil, err |-> "open"]
    /\ UNCHANGED <<source, blocks, blockStack, currentBlock, nParse, pre>>

\* os.Open succeeds: rootBlock, config, scanner, currentBlock, blockStack
OpenOk ==
    /\ pc = "open"
    /\ pc' = "scan"
    /\ blocks' = <<RootBlock>>
    /\ currentBlock' = 1
    /\ blockStack' = <<1>>
    /\ pre' = [blocks |-> <<RootBlock>>, blockStack |-> <<1>>]
    /\ UNCHANGED <<source, ret, nParse>>

\* StackTop that takes the first block in the stack
StackTop_Bottom(stack, cur) == IF Len(stack) > 0 THEN stack[1] ELSE cur

\* StackTop that leaves currentBlock as it was
StackTop_Stale(stack, cur) == cur

\* currentBlock after a line: the last block in the stack
StackTop(stack, cur) == IF Len(stack) > 0 THEN stack[Len(stack)] ELSE cur

\* scanner.Scan() delivers a line that is empty once trimmed: continue
ScanBlank ==
    /\ pc = "scan"
    /\ \E text \in NextLines(source) :
        /\ TrimSpace(text) = <<>>
        /\ source' = Append(source, text)
    /\ pre' = [blocks |-> blocks, blockStack |-> blockStack]
    /\ UNCHANGED <<pc, blocks, blockStack, currentBlock, ret, nParse>>

\* scanner.Scan() delivers a line: parseLine, then currentBlock is updated
\* (a panic in parseLine ends the program with no return value)
ScanLine ==
    /\ pc = "scan"
    /\ \E text \in NextLines(source) :
        /\ TrimSpace(text) # <<>>
        /\ source' = Append(source, text)
        /\ LET out == parseLine(TrimSpace(text), currentBlock, blocks, blockStack) IN
            /\ blocks' = out.blocks
            /\ blockStack' = out.stack
            /\ currentBlock' = StackTop(out.stack, currentBlock)
            /\ pc' = IF out.panic THEN "done" ELSE pc
            /\ ret' = IF out.panic THEN [config |-> Nil, err |-> "panic"] ELSE ret
    /\ nParse' = nParse + 1
    /\ pre' = [blocks |-> blocks, blockStack |-> blockStack]

\* scanner.Scan() returns false at the end of the file, scanner.Err() is nil
ScanEOF ==
    /\ pc = "scan"
    /\ pc' = "done"
    /\ ret' = [config |-> 1, err |-> "nil"]
    /\ UNCHANGED <<source, blocks, blockStack, currentBlock, nParse, pre>>

\* ScanErr that hands back the config built so far along with the error
ScanErr_ReturnsConfig ==
    /\ pc = "scan"
    /\ pc' = "done"
    /\ ret' = [config |-> 1, err |-> "scan"]
    /\ UNCHANGED <<source, blocks, blockStack, currentBlock, nParse, pre>>

\* scanner.Scan() returns false on a failed read, scanner.Err() is not nil:
\* return nil, err
ScanErr ==
    /\ pc = "scan"
    /\ pc' = "done"
    /\ ret' = [config |-> Nil, err |-> "scan"]
    /\ UNCHANGED <<source, blocks, blockStack, currentBlock, nParse, pre>>

Next == OpenFail \/ OpenOk \/ ScanBlank \/ ScanLine \/ ScanEOF \/ ScanErr

Spec == Init /\ [][Next]_vars

----------------------------------------------------------------------------
(* What the last scanned line did, read off the state. *)

\* ParseConfig got past os.Open
Started == Len(blocks) > 0

\* a line has been scanned
Scanned == Started /\ Len(source) > 0

\* the last scanned line as parseLine receives it
LastLine == TrimSpace(source[Len(source)])

\* the innermost open scope before the last scanned line
PreTop == pre.blockStack[Len(pre.blockStack)]

\* the Lines the last scanned line appended to PreTop
AddedLines ==
    SubSeq(blocks[PreTop].Lines, Len(pre.blocks[PreTop].Lines) + 1,
           Len(blocks[PreTop].Lines))

\* the Blocks the last scanned line allocated
AddedBlocks == (Len(pre.blocks) + 1)..Len(blocks)

\* the quote mark that is open after reading s ("" when none is)
RECURSIVE QuoteAfter(_)
QuoteAfter(s) ==
    IF s = <<>> THEN ""
    ELSE LET q == QuoteAfter(SubSeq(s, 1, Len(s) - 1))
             c == s[Len(s)]
         IN  IF c \in {"'", "\""}
             THEN (IF q = "" THEN c ELSE IF q = c THEN "" ELSE q)
             ELSE q

\* s[i] lies outside every '...' and "..." span
Unquoted(s, i) == QuoteAfter(SubSeq(s, 1, i - 1)) = ""

\* the positions of c in s outside quotes
UnquotedAt(s, c) == {i \in 1..Len(s) : s[i] = c /\ Unquoted(s, i)}

MinOf(S) == CHOOSE x \in S : \A y \in S : x <= y

\* every comment the last scanned line attached to a Line or a Block
AttachedComments ==
    {AddedLines[i].Comments : i \in 1..Len(AddedLines)}
        \cup {blocks[b].Comments : b \in AddedBlocks}

----------------------------------------------------------------------------
(* C1 *)

ExpectedQuotedLine ==
    MkLine(<<"a", "l", "p", "h", "a">>,
           << <<"\"", "b", ";", "c", "#", "d", "\"">>, <<"g", "a", "m", "m", "a">> >>,
           <<>>, LineTypeDirective)

\* C1: comment extraction is quote-aware. For every scanned line the comment
\* is the text after the first `#` outside quotes: a line with no such `#`
\* attaches no comment to anything, a line with one attaches only that text;
\* and the line  alpha "b;c#d" gamma;  alone yields exactly one Directive
\* Line alpha with arguments ["b;c#d", gamma] and no comment.
C1_QuoteAwareComment ==
    (Scanned /\ LastLine # <<>>) =>
        LET hs == UnquotedAt(LastLine, "#") IN
        /\ hs = {} => AttachedComments \subseteq {<<>>}
        /\ hs # {} =>
             AttachedComments \subseteq
                 {<<>>, <<TrimSpace(SubSeq(LastLine, MinOf(hs) + 1, Len(LastLine)))>>}
        /\ source = <<QuotedExample>> => blocks[1].Lines = <<ExpectedQuotedLine>>

----------------------------------------------------------------------------
(* C2 *)

BlockLines(b) == SelectSeq(blocks[b].Lines, LAMBDA ln : ln.Type = LineTypeBlock)

\* C2: in every scope the Lines of type block, in order, correspond one to
\* one with the scope's Blocks: equal counts, and the i-th block Line has the
\* name and params of the i-th child Block.
C2_BlockLinesMatchChildren ==
    Started =>
        \A b \in 1..Len(blocks) :
            /\ Len(BlockLines(b)) = Len(blocks[b].Blocks)
            /\ \A i \in 1..Len(blocks[b].Blocks) :
                /\ blocks[b].Blocks[i] \in 1..Len(blocks)
                /\ BlockLines(b)[i].Name = blocks[blocks[b].Blocks[i]].Name
                /\ BlockLines(b)[i].Params = blocks[blocks[b].Blocks[i]].Params

\* a scope left open at the end of the input has two children with different
\* names and params, and other Lines between their block Lines
C2_Witness ==
    /\ pc = "done"
    /\ ret.err = "nil"
    /\ Len(blockStack) > 1
    /\ \E b \in 1..Len(blocks) :
        /\ Len(blocks[b].Blocks) >= 2
        /\ Len(blocks[b].Lines) > Len(blocks[b].Blocks)
        /\ blocks[blocks[b].Blocks[1]].Name # blocks[blocks[b].Blocks[2]].Name
        /\ blocks[blocks[b].Blocks[2]].Params # <<>>

----------------------------------------------------------------------------
(* C3 *)

\* the places (parent, position) where block b is held as a child
Holders(b) ==
    {pi \in (1..Len(blocks)) \X (1..Len(blocks)) :
        /\ pi[2] <= Len(blocks[pi[1]].Blocks)
        /\ blocks[pi[1]].Blocks[pi[2]] = b}

RECURSIVE ReachesRoot(_, _)
ReachesRoot(b, fuel) ==
    IF b = 1 THEN blocks[1].ParentRef = Nil
    ELSE IF fuel = 0 \/ b \notin 1..Len(blocks) THEN FALSE
    ELSE ReachesRoot(blocks[b].ParentRef, fuel - 1)

\* C3: the scopes form a tree. The root has no parent and is nobody's child;
\* every other Block is held in exactly one place, in the Blocks of its
\* ParentRef; and following ParentRef from any Block reaches the root.
C3_ScopesFormTree ==
    Started =>
        /\ blocks[1].ParentRef = Nil
        /\ Holders(1) = {}
        /\ \A b \in 2..Len(blocks) :
            /\ Cardinality(Holders(b)) = 1
            /\ \A pi \in Holders(b) : pi[1] = blocks[b].ParentRef
        /\ \A b \in 1..Len(blocks) : ReachesRoot(b, Len(blocks))

\* a scope below the root holds two children
C3_Witness ==
    /\ Started
    /\ \E p \in 2..Len(blocks) :
        /\ Len(blocks[p].Blocks) >= 2
        /\ blocks[p].ParentRef = 1
        /\ blocks[blocks[p].Blocks[2]].ParentRef = p

----------------------------------------------------------------------------
(* C4 *)

\* C4: the root is never popped. The stack is never empty and its bottom is
\* the root; a line that is exactly `}` while only the root is on the stack
\* changes neither the stack nor the tree; and the input of the single line
\* `}` returns the root with no lines and no children, and no error.
C4_RootNeverPopped ==
    /\ Started => Len(blockStack) >= 1 /\ blockStack[1] = 1
    /\ (Scanned /\ LastLine = <<"}">> /\ pre.blockStack = <<1>>) =>
            blockStack = pre.blockStack /\ blocks = pre.blocks
    /\ (pc = "done" /\ source = <<CloseLine>> /\ ret.err # "scan") =>
            ret = [config |-> 1, err |-> "nil"] /\ blocks = <<RootBlock>>

\* ParseConfig has returned for the input of the single line `}`
C4_Witness ==
    pc = "done" /\ source = <<CloseLine>> /\ ret.err = "nil" /\ nParse = 1

----------------------------------------------------------------------------
(* C5 *)

\* the text of a scanned line left of its first `#`, trimmed
DirectivePart(text) ==
    LET line == TrimSpace(text)
        hs == {i \in 1..Len(line) : line[i] = "#"}
    IN  IF hs = {} THEN line ELSE TrimSpace(SubSeq(line, 1, MinOf(hs) - 1))

\* the line closes a scope
IsCloseLine(text) == DirectivePart(text) = <<"}">>

\* the line opens a scope: one of its fragments ends in `{`
IsOpenLine(text) ==
    LET d == DirectivePart(text) IN
    /\ d \notin {<<>>, <<"}">>}
    /\ LET fs == splitDirectives(d) IN
       \E i \in 1..Len(fs) : fs[i] # <<>> /\ fs[i][Len(fs[i])] = "{"

\* the chain of open scopes as the input lines alone determine it: the k-th
\* opening line opens Block k + 1; ok is FALSE once a `}` had nothing to
\* close; prev is the chain before the last line
RECURSIVE OpenChain(_)
OpenChain(src) ==
    IF src = <<>> THEN [stack |-> <<1>>, opened |-> 1, ok |-> TRUE, prev |-> <<1>>]
    ELSE LET before == OpenChain(SubSeq(src, 1, Len(src) - 1))
             text == src[Len(src)]
             base == [before EXCEPT !.prev = before.stack]
         IN  IF IsCloseLine(text)
             THEN IF Len(before.stack) > 1
                  THEN [base EXCEPT !.stack = SubSeq(@, 1, Len(@) - 1)]
                  ELSE [base EXCEPT !.ok = FALSE]
             ELSE IF IsOpenLine(text)
             THEN [base EXCEPT !.stack = Append(@, before.opened + 1),
                               !.opened = @ + 1]
             ELSE base

ExpectedNesting ==
    << [Name |-> RootName, Params |-> <<>>,
        Lines |-> <<MkLine(<<"h", "t", "t", "p">>, <<>>, <<>>, LineTypeBlock)>>,
        Blocks |-> <<2>>, Comments |-> <<>>, ParentRef |-> Nil],
       [Name |-> <<"h", "t", "t", "p">>, Params |-> <<>>,
        Lines |-> <<MkLine(<<"s", "e", "r", "v", "e", "r">>, <<>>, <<>>, LineTypeBlock)>>,
        Blocks |-> <<3>>, Comments |-> <<>>, ParentRef |-> 1],
       [Name |-> <<"s", "e", "r", "v", "e", "r">>, Params |-> <<>>,
        Lines |-> <<MkLine(<<"l", "i", "s", "t", "e", "n">>, << <<"8", "0">> >>, <<>>,
                           LineTypeDirective)>>,
        Blocks |-> <<>>, Comments |-> <<>>, ParentRef |-> 2] >>

\* C5: on properly nested input (no `}` line without a scope to close) the
\* parse stack is the chain of scopes opened and not yet closed: each `}`
\* line removes exactly the innermost one, each line's Lines and Blocks go
\* to the innermost scope open before the line and to no other, and when
\* every opened scope is closed the stack holds only the root; the nesting
\* example gives root > http > server > listen 80 and ends at root depth.
C5_BalancedNesting ==
    Started =>
        LET now == OpenChain(source)
            chain == now.prev
            top == chain[Len(chain)]
        IN  now.ok =>
            /\ blockStack = now.stack
            /\ currentBlock = blockStack[Len(blockStack)]
            /\ Scanned =>
                /\ pre.blockStack = chain
                /\ IsCloseLine(source[Len(source)]) =>
                        /\ blockStack = SubSeq(chain, 1, Len(chain) - 1)
                        /\ blocks = pre.blocks
                /\ \A b \in 1..Len(pre.blocks) : b # top => blocks[b] = pre.blocks[b]
                /\ \A b \in AddedBlocks : blocks[b].ParentRef = top
                /\ Len(blocks[top].Lines) >= Len(pre.blocks[top].Lines)
            /\ source = NestingExample => blocks = ExpectedNesting /\ blockStack = <<1>>

\* the nesting example has been parsed to its end
C5_Witness ==
    pc = "done" /\ ret.err = "nil" /\ source = NestingExample /\ blockStack = <<1>>

----------------------------------------------------------------------------
(* C6 *)

\* the comment of a line: the trimmed text right of its first `#`
CommentPart(line) ==
    LET hs == {i \in 1..Len(line) : line[i] = "#"} IN
    IF hs = {} THEN <<>> ELSE <<TrimSpace(SubSeq(line, MinOf(hs) + 1, Len(line)))>>

\* the scopes that existed before the last line are as they were, but for
\* what was appended to the Lines and Blocks of the innermost one
OnlyAppendedToPreTop ==
    /\ \A b \in 1..Len(pre.blocks) : b # PreTop => blocks[b] = pre.blocks[b]
    /\ SubSeq(blocks[PreTop].Lines, 1, Len(pre.blocks[PreTop].Lines))
            = pre.blocks[PreTop].Lines
    /\ SubSeq(blocks[PreTop].Blocks, 1, Len(pre.blocks[PreTop].Blocks))
            = pre.blocks[PreTop].Blocks
    /\ blocks[PreTop].Comments = pre.blocks[PreTop].Comments

Word_foo == <<"f", "o", "o">>
Word_bar == <<"b", "a", "r">>
Word_baz == <<"b", "a", "z">>
Word_note == <<"n", "o", "t", "e">>

\* C6: when a line that is not a pure comment carries a comment, the comment
\* is on the first Line produced from the line (and on the Scope, when that
\* first Line opens it) and on nothing else: every later Line of the same
\* line, and a Scope opened by a later fragment, has empty Comments, and no
\* older Line or Scope changes.  `foo bar; # note` gives Directive foo [bar]
\* with comment note; in `foo bar; baz; # note` baz has no comment.
C6_CommentOnFirstOnly ==
    /\ (Scanned /\ LastLine # <<>> /\ CommentPart(LastLine) # <<>>
            /\ DirectivePart(LastLine) # <<>>) =>
        /\ Len(AddedLines) >= 1 => AddedLines[1].Comments = CommentPart(LastLine)
        /\ \A i \in 2..Len(AddedLines) : AddedLines[i].Comments = <<>>
        /\ \A b \in AddedBlocks :
              blocks[b].Comments =
                  IF Len(AddedLines) = 1 THEN CommentPart(LastLine) ELSE <<>>
        /\ OnlyAppendedToPreTop
    /\ (Started /\ source = <<CommentExample>>) =>
        blocks[1].Lines = <<MkLine(Word_foo, <<Word_bar>>, <<Word_note>>, LineTypeDirective)>>
    /\ (Started /\ source = <<CommentExample2>>) =>
        blocks[1].Lines = <<MkLine(Word_foo, <<Word_bar>>, <<Word_note>>, LineTypeDirective),
                            MkLine(Word_baz, <<>>, <<>>, LineTypeDirective)>>

\* inside an open scope, a line with a comment has produced two Directive
\* Lines and then opened a Scope
C6_Witness ==
    /\ Scanned
    /\ source = <<OpenLine, MixedExample>>
    /\ Len(AddedLines) = 3
    /\ AddedLines[1].Comments = << <<"z">> >>
    /\ AddedBlocks = {3}

----------------------------------------------------------------------------
(* C7 *)

\* d cut at the positions `cuts`, from position `from` on
RECURSIVE CutAt(_, _, _)
CutAt(d, from, cuts) ==
    IF \E c \in cuts : c >= from
    THEN LET c == MinOf({x \in cuts : x >= from}) IN
         <<SubSeq(d, from, c - 1)>> \o CutAt(d, c + 1, cuts)
    ELSE <<SubSeq(d, from, Len(d))>>

RECURSIVE TrimAll(_)
TrimAll(ss) == IF ss = <<>> THEN <<>> ELSE <<TrimSpace(Head(ss))>> \o TrimAll(Tail(ss))

\* the non-empty fragments of d between its `;` outside quotes, trimmed
SemiFragments(d) ==
    SelectSeq(TrimAll(CutAt(d, 1, UnquotedAt(d, ";"))), LAMBDA f : f # <<>>)

\* no fragment of d ends in `{`
NoBraceFragment(d) ==
    /\ UnquotedAt(d, "{") = {}
    /\ \A i \in 1..Len(SemiFragments(d)) :
          SemiFragments(d)[i][Len(SemiFragments(d)[i])] # "{"

ExpectedMulti ==
    << MkLine(<<"a">>, << <<"1">> >>, <<>>, LineTypeDirective),
       MkLine(<<"b">>, << <<"2">> >>, <<>>, LineTypeDirective),
       MkLine(<<"c">>, << <<"3">> >>, <<>>, LineTypeDirective) >>

\* C7: a line whose directive text (not `}`) holds n non-empty `;`-separated
\* fragments, none ending in `{`, appends exactly n Lines to the scope on top
\* of the stack, in fragment order, each named by the fragment's first word
\* with its remaining words as params, allocates no Scope and leaves the
\* stack unchanged; `a 1; b 2; c 3;` gives a[1], b[2], c[3] in one scope.
C7_FragmentsBecomeLines ==
    /\ (Scanned /\ LastLine # <<>>) =>
        LET d == DirectivePart(LastLine)
            frags == SemiFragments(d)
        IN  (d \notin {<<>>, <<"}">>} /\ NoBraceFragment(d)) =>
                /\ Len(AddedLines) = Len(frags)
                /\ \A i \in 1..Len(frags) :
                    /\ AddedLines[i].Name = Fields(frags[i])[1]
                    /\ AddedLines[i].Params = Tail(Fields(frags[i]))
                    /\ AddedLines[i].Type \in {LineTypeDirective, LineTypeInclude}
                /\ blockStack = pre.blockStack
                /\ Len(blocks) = Len(pre.blocks)
                /\ OnlyAppendedToPreTop
    /\ (Started /\ source = <<MultiExample>>) => blocks[1].Lines = ExpectedMulti

\* `a 1; b 2; c 3;` inside an open scope has added its three Lines to it
C7_Witness ==
    /\ Scanned
    /\ source = <<OpenLine, MultiExample>>
    /\ PreTop = 2
    /\ blocks[2].Lines = ExpectedMulti
    /\ blocks[1].Lines = <<MkLine(<<"b">>, <<>>, <<>>, LineTypeBlock)>>

----------------------------------------------------------------------------
(* C8 *)

\* what parseLine hands to splitDirectives for the last scanned line
SplitInput == DirectivePart(LastLine)

\* the last scanned line reached the call of splitDirectives
WasSplit == Scanned /\ LastLine # <<>> /\ SplitInput \notin {<<>>, <<"}">>}

\* C8 as stated: the fragments returned by splitDirectives never contain an
\* unquoted `;`, never contain the line's `{`, and none of them is empty or
\* whitespace only.
C8_AsStated ==
    WasSplit =>
        LET fs == splitDirectives(SplitInput) IN
        \A i \in 1..Len(fs) :
            /\ UnquotedAt(fs[i], ";") = {}
            /\ UnquotedAt(fs[i], "{") = {}
            /\ TrimSpace(fs[i]) # <<>>

\* C8 as amended: the fragments never contain an unquoted `;` and are
\* trimmed; the first unquoted `{` of the line is kept, as the last character
\* of the last fragment, and no fragment holds any other unquoted `{`; an
\* empty fragment can be returned, and parseLine makes no Line for it.
C8_SplitterContract ==
    WasSplit =>
        LET fs == splitDirectives(SplitInput) IN
        /\ \A i \in 1..Len(fs) :
            /\ UnquotedAt(fs[i], ";") = {}
            /\ TrimSpace(fs[i]) = fs[i]
            /\ \A k \in UnquotedAt(fs[i], "{") : i = Len(fs) /\ k = Len(fs[i])
        /\ UnquotedAt(SplitInput, "{") # {} =>
            /\ Len(fs) >= 1
            /\ UnquotedAt(fs[Len(fs)], "{") = {Len(fs[Len(fs)])}
        /\ Len(AddedLines) = Len(SelectSeq(fs, LAMBDA f : f # <<>>))

\* a line has been split into an empty fragment and a fragment that keeps
\* its opening brace
C8_Witness ==
    /\ WasSplit
    /\ LET fs == splitDirectives(SplitInput) IN
        /\ Len(fs) = 2
        /\ fs[1] = <<>>
        /\ fs[2][Len(fs[2])] = "{"
    /\ Len(AddedLines) = 1
    /\ AddedBlocks # {}

----------------------------------------------------------------------------
(* C9 *)

RECURSIVE NonBlank(_)
NonBlank(src) ==
    IF src = <<>> THEN 0
    ELSE NonBlank(Tail(src)) + (IF TrimSpace(Head(src)) = <<>> THEN 0 ELSE 1)

\* C9: whatever lines the scanner delivers (stray `}`, unclosed scopes,
\* directives without arguments, unterminated quotes), as long as it reports
\* no error ParseConfig does not fail: every non-blank line delivered has
\* gone through parseLine, and at the end of the input ParseConfig returns
\* the Document with a nil error, the scopes still open being in the tree.
C9_NoParseError ==
    /\ ret.err \in {"none", "nil", "open", "scan"}
    /\ Started => nParse = NonBlank(source)
    /\ (pc = "done" /\ ret.err \notin {"open", "scan"}) =>
        /\ ret = [config |-> 1, err |-> "nil"]
        /\ \A k \in 1..Len(blockStack) :
            /\ ReachesRoot(blockStack[k], Len(blocks))
            /\ k > 1 => Holders(blockStack[k]) # {}

\* ParseConfig has returned a Document for an input with a stray `}`, a
\* scope left open and a directive without arguments
C9_Witness ==
    /\ pc = "done"
    /\ ret = [config |-> 1, err |-> "nil"]
    /\ Len(source) >= 3
    /\ source[1] = CloseLine
    /\ Len(blockStack) > 1
    /\ \E i \in 1..Len(blocks[1].Lines) :
        blocks[1].Lines[i].Type = LineTypeDirective /\ blocks[1].Lines[i].Params = <<>>

----------------------------------------------------------------------------
(* C10 *)

\* C10 as stated: whenever ParseConfig returns an error it returns no
\* Document and parseLine was never invoked.
C10_AsStated ==
    (pc = "done" /\ ret.err # "nil") => ret.config = Nil /\ nParse = 0

\* C10 as amended: whenever ParseConfig returns an error it returns no
\* Document; when the error is that of os.Open, no line was read and
\* parseLine was never invoked (an error of the scanner is returned after
\* the loop, when the lines before it have been parsed).
C10_ErrorReturnsNoDocument ==
    (pc = "done" /\ ret.err # "nil") =>
        /\ ret.config = Nil
        /\ ret.err = "open" => nParse = 0 /\ source = <<>> /\ blocks = <<>>

\* the scanner failed after parseLine had built part of the tree
C10_Witness ==
    pc = "done" /\ ret.err = "scan" /\ ret.config = Nil /\ nParse > 0 /\ Len(blocks) > 1

----------------------------------------------------------------------------
(* PrintConfig and printBlock: the lines they print. *)

\* strings.Repeat
RECURSIVE Repeat(_, _)
Repeat(s, n) == IF n = 0 THEN <<>> ELSE s \o Repeat(s, n - 1)

\* strings.Join
RECURSIVE Join(_, _)
Join(ss, sep) ==
    IF ss = <<>> THEN <<>>
    ELSE IF Len(ss) = 1 THEN ss[1]
    ELSE ss[1] \o sep \o Join(Tail(ss), sep)

\* " " + strings.Join(params, " ") when there are params
ParamsText(params) == IF Len(params) > 0 THEN <<" ">> \o Join(params, <<" ">>) ELSE <<>>

\* " # " + strings.Join(comments, " ") when there are comments
CommentsText(comments) ==
    IF Len(comments) > 0 THEN <<" ", "#", " ">> \o Join(comments, <<" ">>) ELSE <<>>

\* blockStr of printBlock
BlockHeader(block, indentStr) ==
    indentStr \o block.Name \o ParamsText(block.Params) \o <<" ", "{">>
        \o CommentsText(block.Comments)

\* lineStr of printBlock
LineText(line, indentStr) ==
    indentStr \o <<" ", " ">> \o line.Name \o ParamsText(line.Params)
        \o (IF line.Type # LineTypeComment THEN <<";">> ELSE <<>>)
        \o CommentsText(line.Comments)

\* the "Print lines" loop: block Lines are skipped
RECURSIVE PrintLines(_, _)
PrintLines(lines, indentStr) ==
    IF lines = <<>> THEN <<>>
    ELSE (IF Head(lines).Type = LineTypeBlock THEN <<>>
          ELSE <<LineText(Head(lines), indentStr)>>)
         \o PrintLines(Tail(lines), indentStr)

RECURSIVE printBlock(_, _, _)
RECURSIVE PrintChildren(_, _, _)

\* the "Print child blocks" loop
PrintChildren(arena, children, indent) ==
    IF children = <<>> THEN <<>>
    ELSE printBlock(arena, Head(children), indent + 1)
            \o PrintChildren(arena, Tail(children), indent)

\* printBlock(block, indent), block being arena[b]
printBlock(arena, b, indent) ==
    LET block == arena[b]
        indentStr == Repeat(<<" ", " ">>, indent)
    IN  (IF block.Name # RootName THEN <<BlockHeader(block, indentStr)>> ELSE <<>>)
        \o PrintLines(block.Lines, indentStr)
        \o PrintChildren(arena, block.Blocks, indent)
        \o (IF block.Name # RootName THEN <<indentStr \o <<"}">> >> ELSE <<>>)

\* PrintConfig(config)
PrintConfig(arena) == printBlock(arena, 1, 0)

\* the loop of ParseConfig over the lines `text`, from a fresh rootBlock
RECURSIVE ParseLoop(_, _)
ParseLoop(st, text) ==
    IF text = <<>> THEN st
    ELSE LET line == TrimSpace(Head(text)) IN
         IF line = <<>> THEN ParseLoop(st, Tail(text))
         ELSE LET out == parseLine(line, st.cur, st.blocks, st.stack) IN
              ParseLoop([blocks |-> out.blocks, stack |-> out.stack,
                         cur |-> StackTop(out.stack, st.cur)], Tail(text))

\* the arena ParseConfig builds from the lines `text`
ParseText(text) ==
    ParseLoop([blocks |-> <<RootBlock>>, stack |-> <<1>>, cur |-> 1], text).blocks

----------------------------------------------------------------------------
(* C11 *)

RECURSIVE NamesAndParams(_)
NamesAndParams(lines) ==
    IF lines = <<>> THEN <<>>
    ELSE <<[Name |-> Head(lines).Name, Params |-> Head(lines).Params]>>
            \o NamesAndParams(Tail(lines))

\* the names and params of the Lines of scope b and of its child scopes, all
\* the way down
RECURSIVE Shape(_, _)
RECURSIVE ShapeAll(_, _)
ShapeAll(arena, children) ==
    IF children = <<>> THEN <<>>
    ELSE <<Shape(arena, Head(children))>> \o ShapeAll(arena, Tail(children))

Shape(arena, b) ==
    [Name |-> arena[b].Name, Params |-> arena[b].Params,
     Lines |-> NamesAndParams(arena[b].Lines),
     Blocks |-> ShapeAll(arena, arena[b].Blocks)]

\* C11: round trip through the flat re-serializer. Printing the parsed
\* Document with PrintConfig and parsing the printed lines again gives a
\* Document in which every scope has the same sequence of Line names and
\* params (block Lines included, in the same positions) and the same
\* sequence of child scopes as the original.
C11_RoundTrip ==
    (pc = "done" /\ ret.err = "nil") =>
        Shape(ParseText(PrintConfig(blocks)), 1) = Shape(blocks, 1)

----------------------------------------------------------------------------
(* C12 *)

\* the fragment of the line that ends in `{`
OpeningFragment(text) ==
    LET fs == splitDirectives(DirectivePart(text))
        i == CHOOSE i \in 1..Len(fs) : fs[i] # <<>> /\ fs[i][Len(fs[i])] = "{"
    IN  fs[i]

\* the words of a fragment after the trailing `{` has been stripped from the
\* final word, or the final word dropped when it is exactly `{`
StrippedWords(fragment) ==
    LET ws == Fields(fragment)
        last == ws[Len(ws)]
    IN  IF last = <<"{">> THEN SubSeq(ws, 1, Len(ws) - 1)
        ELSE [ws EXCEPT ![Len(ws)] = SubSeq(last, 1, Len(last) - 1)]

EndsWithBrace(w) == w # <<>> /\ w[Len(w)] = "{"

\* C12: for every fragment whose last character is `{`, whatever its number
\* of words, the new scope's name is the fragment's first word and its
\* params are the remaining words, the trailing `{` stripped from the final
\* word (or the final word dropped when it is exactly `{`); no scope name
\* and no scope param ends with `{`.
C12_BraceStripped ==
    (Scanned /\ IsOpenLine(source[Len(source)])) =>
        LET ws == StrippedWords(OpeningFragment(source[Len(source)])) IN
        \A b \in AddedBlocks :
            /\ ws # <<>> => blocks[b].Name = ws[1] /\ blocks[b].Params = Tail(ws)
            /\ ~EndsWithBrace(blocks[b].Name)
            /\ \A i \in 1..Len(blocks[b].Params) : ~EndsWithBrace(blocks[b].Params[i])

----------------------------------------------------------------------------
(* C13 *)

Word_events == <<"e", "v", "e", "n", "t", "s">>

\* C13: on a line with a `{` outside quotes the fragment that ends in the
\* first such `{` is the last one emitted, and what follows it on the line
\* is discarded: the line makes the Lines of the fragments up to that `{`
\* and nothing more, opens exactly the one scope and leaves it on top of the
\* stack, popping nothing; `events { }` leaves the scope events open.
C13_RestOfLineDiscarded ==
    /\ WasSplit =>
        LET braces == UnquotedAt(SplitInput, "{") IN
        braces # {} =>
            LET cut == SubSeq(SplitInput, 1, MinOf(braces))
                frags == SemiFragments(cut)
                fs == splitDirectives(SplitInput)
            IN  /\ SelectSeq(fs, LAMBDA f : f # <<>>) = frags
                /\ fs[Len(fs)] = frags[Len(frags)]
                /\ fs[Len(fs)][Len(fs[Len(fs)])] = "{"
                /\ Len(AddedLines) = Len(frags)
                /\ \A i \in 1..Len(AddedLines) :
                      (AddedLines[i].Type = LineTypeBlock) <=> (i = Len(frags))
                /\ AddedBlocks = {Len(blocks)}
                /\ Len(blocks) = Len(pre.blocks) + 1
                /\ blocks[Len(blocks)].Lines = <<>>
                /\ blocks[Len(blocks)].Blocks = <<>>
                /\ blockStack = Append(pre.blockStack, Len(blocks))
    /\ (Scanned /\ source = <<OneLineBlockExample>>) =>
            /\ blockStack = <<1, 2>>
            /\ blocks[1].Lines = <<MkLine(Word_events, <<>>, <<>>, LineTypeBlock)>>
            /\ blocks[2] = MkBlock(Word_events, <<>>, <<>>, 1)

\* `events { }` has been scanned inside an open scope, and its scope is on
\* top of the stack
C13_Witness ==
    /\ Scanned
    /\ source = <<OpenLine, OneLineBlockExample>>
    /\ blockStack = <<1, 2, 3>>
    /\ blocks[3].Name = Word_events
    /\ Len(blocks[2].Lines) = 1

----------------------------------------------------------------------------
(* C14 *)

MaxOf(S) == CHOOSE x \in S : \A y \in S : x >= y

\* the part of d that is split: all of it, or up to its first `{` outside
\* quotes
SplitPart(d) ==
    IF UnquotedAt(d, "{") = {} THEN d ELSE SubSeq(d, 1, MinOf(UnquotedAt(d, "{")))

\* s ends with the text t
EndsWith(s, t) == Len(t) <= Len(s) /\ SubSeq(s, Len(s) - Len(t) + 1, Len(s)) = t

\* where the quote that d leaves open begins
OpenQuoteAt(d) == MaxOf({i \in 1..Len(d) : d[i] \in {"'", "\""} /\ Unquoted(d, i)})

\* C14: quote state is local to one physical line. The fragments of a line
\* are those cut at the `;` and `{` that lie outside quotes, a quote being
\* open from a `'` or `"` to the next occurrence of the same character,
\* counted from the start of that line alone, whatever the lines before it
\* were; when a quote is left open, everything from its opening character
\* to the end of the line lies in the last fragment.
C14_QuoteStateLocal ==
    WasSplit =>
        LET d == SplitInput
            frags == SemiFragments(SplitPart(d))
        IN  /\ SelectSeq(splitDirectives(d), LAMBDA f : f # <<>>) = frags
            /\ Len(AddedLines) = Len(frags)
            /\ \A i \in 1..Len(frags) : AddedLines[i].Name = Fields(frags[i])[1]
            /\ (QuoteAfter(d) # "" /\ UnquotedAt(d, "{") = {}) =>
                LET q == OpenQuoteAt(d) IN
                /\ frags # <<>>
                /\ EndsWith(frags[Len(frags)], SubSeq(d, q, Len(d)))
                /\ Len(frags) = Len(SemiFragments(SubSeq(d, 1, q)))

\* after a line that ends inside a quote, with a `;` in the quote, a line
\* of two fragments has been split in two
C14_Witness ==
    /\ Scanned
    /\ source = <<UnterminatedLine, <<"a", ";", "a">> >>
    /\ Len(pre.blocks[1].Lines) = 1
    /\ pre.blocks[1].Lines[1].Params = << <<"\"", "x", ";">>, <<"e">> >>
    /\ Len(AddedLines) = 2

----------------------------------------------------------------------------
(* C15 *)

\* the type the classification gives a non-empty fragment
ClassOf(fragment) ==
    IF fragment[Len(fragment)] = "{" THEN LineTypeBlock
    ELSE IF Fields(fragment)[1] = IncludeWord THEN LineTypeInclude
    ELSE LineTypeDirective

\* C15: classification of a non-empty fragment is total and exclusive. It
\* makes a block Line and a new scope iff its last character is `{`;
\* otherwise an include Line iff its first word is exactly `include`;
\* otherwise a directive Line. Include and directive Lines go to the scope
\* on top of the stack and change neither the stack nor the set of scopes:
\* an include line brings in nothing but its own Line.
C15_Classification ==
    WasSplit =>
        LET frags == SemiFragments(SplitPart(SplitInput))
            openers == {i \in 1..Len(frags) : ClassOf(frags[i]) = LineTypeBlock}
        IN  /\ Len(AddedLines) = Len(frags)
            /\ \A i \in 1..Len(frags) :
                /\ AddedLines[i].Type = ClassOf(frags[i])
                /\ AddedLines[i].Type \in {LineTypeBlock, LineTypeInclude, LineTypeDirective}
            /\ Cardinality(AddedBlocks) = Cardinality(openers)
            /\ openers = {} => blockStack = pre.blockStack
            /\ OnlyAppendedToPreTop
            /\ Len(blocks[PreTop].Blocks) =
                    Len(pre.blocks[PreTop].Blocks) + Cardinality(openers)

\* inside an open scope, `includes f; include g` has made a directive Line
\* and an include Line in that scope and left the stack as it was
C15_Witness ==
    /\ Scanned
    /\ source = <<OpenLine, IncludeLikeExample>>
    /\ PreTop = 2
    /\ Len(AddedLines) = 2
    /\ AddedLines[1].Type = LineTypeDirective
    /\ AddedLines[2].Type = LineTypeInclude
    /\ AddedLines[2].Params = << <<"g">> >>
    /\ blockStack = <<1, 2>>
    /\ Len(blocks) = 2

----------------------------------------------------------------------------
(* C16 *)

\* C16: processing one physical line only appends. The Lines and Blocks the
\* innermost open scope had before the line are still there, unchanged and
\* in the same order, in front of what the line appended; every other scope
\* is as it was; no scope's Name, Params, Comments or ParentRef changes; the
\* scopes allocated by the line are new ones, so that each scope's Blocks
\* are in the order in which the source opened them.
C16_OnlyAppends ==
    Scanned =>
        /\ Len(blocks) >= Len(pre.blocks)
        /\ \A b \in 1..Len(pre.blocks) :
            /\ blocks[b].Name = pre.blocks[b].Name
            /\ blocks[b].Params = pre.blocks[b].Params
            /\ blocks[b].Comments = pre.blocks[b].Comments
            /\ blocks[b].ParentRef = pre.blocks[b].ParentRef
            /\ b # PreTop =>
                /\ blocks[b].Lines = pre.blocks[b].Lines
                /\ blocks[b].Blocks = pre.blocks[b].Blocks
            /\ IsPrefix(pre.blocks[b].Lines, blocks[b].Lines)
            /\ IsPrefix(pre.blocks[b].Blocks, blocks[b].Blocks)
        /\ \A i \in Len(pre.blocks[PreTop].Blocks) + 1 .. Len(blocks[PreTop].Blocks) :
                blocks[PreTop].Blocks[i] \in AddedBlocks
        /\ \A b \in 1..Len(blocks) :
            \A i, j \in 1..Len(blocks[b].Blocks) :
                i < j => blocks[b].Blocks[i] < blocks[b].Blocks[j]

\* after a scope was opened, given a Line and closed, a comment line has
\* been appended to the root, behind the Line and the block Line it had
C16_Witness ==
    /\ Scanned
    /\ Len(source) = MaxLines
    /\ PreTop = 1
    /\ Len(blocks) = 2
    /\ Len(blocks[2].Lines) = 1
    /\ Len(pre.blocks[1].Lines) = 2
    /\ pre.blocks[1].Lines[2].Type = LineTypeBlock
    /\ Len(AddedLines) = 1
    /\ AddedLines[1].Type = LineTypeComment

----------------------------------------------------------------------------
(* C17 *)

\* C17: after any sequence of lines the parse stack is the chain of the
\* open scopes. Its bottom element is the root; each element above the
\* bottom has the element directly below it as ParentRef and is the last
\* entry of that element's Blocks, as it was when pushed, since nothing is
\* appended to a scope while a scope above it is open; and its elements are
\* the scopes the lines read so far have opened and not closed.
C17_StackIsOpenChain ==
    Started =>
        /\ Len(blockStack) >= 1
        /\ blockStack[1] = 1
        /\ \A k \in 1..(Len(blockStack) - 1) :
            LET lower == blockStack[k]
                upper == blockStack[k + 1]
            IN  /\ upper \in 2..Len(blocks)
                /\ blocks[upper].ParentRef = lower
                /\ blocks[lower].Blocks # <<>>
                /\ blocks[lower].Blocks[Len(blocks[lower].Blocks)] = upper
        /\ (Scanned /\ Len(blockStack) > Len(pre.blockStack)) =>
            /\ SubSeq(blockStack, 1, Len(pre.blockStack)) = pre.blockStack
            /\ blockStack[Len(blockStack)] \in AddedBlocks
        /\ blockStack = OpenChain(source).stack

\* three scopes are open, the middle one holding a closed child before the
\* open one
C17_Witness ==
    /\ Scanned
    /\ Len(blockStack) = 3
    /\ Len(blocks[blockStack[2]].Blocks) = 2
    /\ blocks[blockStack[2]].Blocks[2] = blockStack[3]
    /\ blocks[blockStack[2]].Blocks[1] # blockStack[3]

----------------------------------------------------------------------------
(* C18 *)

\* the last scanned line has a fragment that opens a scope
OpensScope ==
    /\ WasSplit
    /\ LET frags == SemiFragments(SplitPart(SplitInput)) IN
       \E i \in 1..Len(frags) : ClassOf(frags[i]) = LineTypeBlock

\* the last scanned line is `}`, once its comment is removed, and a scope
\* other than the root was open
ClosesScope ==
    Scanned /\ LastLine # <<>> /\ SplitInput = <<"}">> /\ Len(pre.blockStack) > 1

\* C18: whenever ParseConfig calls parseLine, currentBlock is the top of
\* blockStack. One line pushes at most one scope, and the depth of the stack
\* changes by one at most: it grows by one iff the line has a fragment that
\* opens a scope, shrinks by one iff the line is exactly `}` while a scope
\* other than the root is open, and is unchanged otherwise. No Line and no
\* scope is attached to a scope other than the innermost open one.
C18_CurrentIsTop ==
    Started =>
        /\ currentBlock = blockStack[Len(blockStack)]
        /\ Scanned =>
            /\ pre.blockStack # <<>>
            /\ Cardinality(AddedBlocks) <= 1
            /\ Len(blockStack) - Len(pre.blockStack) \in {-1, 0, 1}
            /\ (Len(blockStack) = Len(pre.blockStack) + 1) <=> OpensScope
            /\ (Len(blockStack) = Len(pre.blockStack) - 1) <=> ClosesScope
            /\ \A b \in 1..Len(pre.blocks) :
                b # PreTop =>
                    /\ blocks[b].Lines = pre.blocks[b].Lines
                    /\ blocks[b].Blocks = pre.blocks[b].Blocks
            /\ \A b \in AddedBlocks :
                /\ blocks[b].ParentRef = PreTop
                /\ blocks[PreTop].Blocks = Append(pre.blocks[PreTop].Blocks, b)

\* a line of two fragments, read with one scope open, has given that scope
\* two Lines and opened one scope in it, which is now currentBlock
C18_Witness ==
    /\ Scanned
    /\ pc = "scan"
    /\ pre.blockStack = <<1, 2>>
    /\ blockStack = <<1, 2, 3>>
    /\ currentBlock = 3
    /\ Len(AddedLines) = 2
    /\ blocks[1] = pre.blocks[1]
    /\ OpensScope

----------------------------------------------------------------------------
(* C19 *)

\* a comment text is extracted from the last scanned line
HasComment == Scanned /\ LastLine # <<>> /\ Index(LastLine, "#") >= 0

\* C19: no comment is lost. For every scanned line from which a comment
\* text is extracted, that text is in the tree afterwards, as the comment of
\* a comment Line or in the Comments of a Line or scope made from the same
\* line, also when the directive part of the line is exactly `}` or has
\* nothing but empty fragments.
C19_NoCommentLost ==
    HasComment => CommentPart(LastLine) \in AttachedComments

=============================================================================
